---- MODULE Spec2Model ----
(***************************************************************************)
(* The SQL gateway of my-credentials-mcp (mcp-api-wrapper/server.js) and   *)
(* the MCP tools that call it.  A statement is a sequence of one-character *)
(* strings, so that trimming, case folding, prefix tests and the deny-list *)
(* regular expressions are computed on the text as the code computes them. *)
(***************************************************************************)
EXTENDS Integers, Sequences, FiniteSets, TLC

VARIABLES req, pool, tables, privilegedUsers, allowedUsernames, hits, suggestion,
          db, stmt, fn

vars ==
    <<req, pool, tables, privilegedUsers, allowedUsernames, hits, suggestion, db,
      stmt, fn>>

(***************************************************************************)
(* Text primitives: String.prototype.trim / toLowerCase / startsWith and   *)
(* the character classes of the regular expressions.                       *)
(***************************************************************************)
UpperChars ==
    <<"A","B","C","D","E","F","G","H","I","J","K","L","M",
      "N","O","P","Q","R","S","T","U","V","W","X","Y","Z">>

LowerChars ==
    <<"a","b","c","d","e","f","g","h","i","j","k","l","m",
      "n","o","p","q","r","s","t","u","v","w","x","y","z">>

lowerOf ==
    [c \in {UpperChars[i] : i \in 1..26} |->
        LowerChars[CHOOSE i \in 1..26 : UpperChars[i] = c]]

toLowerCaseChar(c) == IF c \in DOMAIN lowerOf THEN lowerOf[c] ELSE c

toLowerCase(s) == [i \in 1..Len(s) |-> toLowerCaseChar(s[i])]

\* \s of a JavaScript regular expression, and what trim() strips
IsWhiteSpace(c) == c \in {" ", "\t", "\n", "\r"}

\* what "." of a regular expression (no s flag) does not match
IsLineTerminator(c) == c \in {"\n", "\r"}

trim(s) ==
    IF \A i \in 1..Len(s) : IsWhiteSpace(s[i])
    THEN <<>>
    ELSE LET first == CHOOSE i \in 1..Len(s) :
                          /\ ~IsWhiteSpace(s[i])
                          /\ \A k \in 1..(i-1) : IsWhiteSpace(s[k])
             last  == CHOOSE i \in 1..Len(s) :
                          /\ ~IsWhiteSpace(s[i])
                          /\ \A k \in (i+1)..Len(s) : IsWhiteSpace(s[k])
         IN  SubSeq(s, first, last)

startsWith(s, p) == Len(s) >= Len(p) /\ SubSeq(s, 1, Len(p)) = p

\* the literal w occurs in s at position i
MatchesAt(s, i, w) ==
    /\ i >= 1
    /\ i + Len(w) - 1 <= Len(s)
    /\ \A k \in 1..Len(w) : s[i + k - 1] = w[k]

\* String.prototype.includes
includes(s, w) == \E i \in 1..Len(s) : MatchesAt(s, i, w)

\* ".*" can cover s[a..b]
DotStar(s, a, b) == \A k \in a..b : ~IsLineTerminator(s[k])

\* "\s*" can cover s[a..b]
SpaceStar(s, a, b) == \A k \in a..b : IsWhiteSpace(s[k])

kw_insert == <<"i","n","s","e","r","t">>

kw_update == <<"u","p","d","a","t","e">>

kw_delete == <<"d","e","l","e","t","e">>

kw_create == <<"c","r","e","a","t","e">>

kw_drop == <<"d","r","o","p">>

kw_alter == <<"a","l","t","e","r">>

kw_truncate == <<"t","r","u","n","c","a","t","e">>

kw_grant == <<"g","r","a","n","t">>

kw_revoke == <<"r","e","v","o","k","e">>

kw_where == <<"w","h","e","r","e">>

kw_union == <<"u","n","i","o","n">>

kw_select == <<"s","e","l","e","c","t">>

kw_exec == <<"e","x","e","c">>

kw_sp == <<"s","p","_">>

(***************************************************************************)
(* The classifier.  Three copies exist: the gateway's (server.js), the MCP *)
(* side's (database/utils.ts) and the retired one (old-src/security.ts).   *)
(***************************************************************************)
writeKeywords ==
    <<kw_insert, kw_update, kw_delete, kw_create, kw_drop, kw_alter, kw_truncate>>

isWriteOperation(sql) ==
    LET trimmedSql == toLowerCase(trim(sql))
    IN  \E k \in 1..Len(writeKeywords) : startsWith(trimmedSql, writeKeywords[k])

utils_writeKeywords ==
    <<kw_insert, kw_update, kw_delete, kw_create, kw_drop, kw_alter, kw_truncate>>

\* utils_isWriteOperation with an empty keyword list
utils_isWriteOperation_never(sql) ==
    LET trimmedSql == toLowerCase(trim(sql))
    IN  \E k \in {} : startsWith(trimmedSql, utils_writeKeywords[k])

utils_isWriteOperation(sql) ==
    LET trimmedSql == toLowerCase(trim(sql))
    IN  \E k \in 1..Len(utils_writeKeywords) :
            startsWith(trimmedSql, utils_writeKeywords[k])

security_writeKeywords ==
    <<kw_insert, kw_update, kw_delete, kw_create, kw_drop, kw_alter, kw_truncate,
      kw_grant, kw_revoke>>

security_isWriteOperation(sql) ==
    LET trimmedSql == toLowerCase(trim(sql))
    IN  \E k \in 1..Len(security_writeKeywords) :
            startsWith(trimmedSql, security_writeKeywords[k])

(***************************************************************************)
(* The validator of the gateway: nine regular expressions, tried in order. *)
(* A pattern with the i flag is matched on the lower-cased text.           *)
(***************************************************************************)
\* /;.*KW\s+/i
SeparatorThenKeyword(sql, kw) ==
    LET s == toLowerCase(sql)
    IN  \E i \in 1..Len(s) :
          /\ s[i] = ";"
          /\ \E j \in (i+1)..Len(s) :
                /\ DotStar(s, i+1, j-1)
                /\ MatchesAt(s, j, kw)
                /\ j + Len(kw) <= Len(s)
                /\ IsWhiteSpace(s[j + Len(kw)])

\* /;.*delete.*where\s+1\s*=\s*1/i
SeparatorThenDeleteAll(sql) ==
    LET s == toLowerCase(sql)
        n == Len(s)
    IN  \E i \in 1..n :
          /\ s[i] = ";"
          /\ \E j \in (i+1)..n :
                /\ DotStar(s, i+1, j-1)
                /\ MatchesAt(s, j, kw_delete)
                /\ \E k \in (j+6)..n :
                      /\ DotStar(s, j+6, k-1)
                      /\ MatchesAt(s, k, kw_where)
                      /\ \E a \in (k+6)..n :
                            /\ SpaceStar(s, k+5, a-1)
                            /\ s[a] = "1"
                            /\ \E b \in (a+1)..n :
                                  /\ SpaceStar(s, a+1, b-1)
                                  /\ s[b] = "="
                                  /\ \E c \in (b+1)..n :
                                        /\ SpaceStar(s, b+1, c-1)
                                        /\ s[c] = "1"

\* /\/\*.*\*\//   (case sensitive, one line)
BlockComment(sql) ==
    \E i \in 1..Len(sql) :
        /\ MatchesAt(sql, i, <<"/","*">>)
        /\ \E j \in (i+2)..Len(sql) :
              /\ DotStar(sql, i+2, j-1)
              /\ MatchesAt(sql, j, <<"*","/">>)

\* /--.*$/m : after "--", ".*" runs to the end of the line, where $ matches
LineComment(sql) == \E i \in 1..Len(sql) : MatchesAt(sql, i, <<"-","-">>)

\* /union.*select/i
UnionSelect(sql) ==
    LET s == toLowerCase(sql)
    IN  \E i \in 1..Len(s) :
          /\ MatchesAt(s, i, kw_union)
          /\ \E j \in (i+5)..Len(s) :
                /\ DotStar(s, i+5, j-1)
                /\ MatchesAt(s, j, kw_select)

\* /exec\s*\(/i
ExecCall(sql) ==
    LET s == toLowerCase(sql)
    IN  \E i \in 1..Len(s) :
          /\ MatchesAt(s, i, kw_exec)
          /\ \E j \in (i+4)..Len(s) :
                /\ SpaceStar(s, i+4, j-1)
                /\ s[j] = "("

\* /sp_/i
StoredProcedure(sql) ==
    LET s == toLowerCase(sql)
    IN  \E i \in 1..Len(s) : MatchesAt(s, i, kw_sp)

dangerousPatterns ==
    <<";.*drop\\s+", ";.*delete.*where\\s+1\\s*=\\s*1", ";.*truncate\\s+",
      ";.*alter\\s+", "/\\*.*\\*/", "--.*$", "union.*select", "exec\\s*\\(", "sp_">>

\* pattern.test(sql)
RegExpTest(pattern, sql) ==
    CASE pattern = dangerousPatterns[1] -> SeparatorThenKeyword(sql, kw_drop)
      [] pattern = dangerousPatterns[2] -> SeparatorThenDeleteAll(sql)
      [] pattern = dangerousPatterns[3] -> SeparatorThenKeyword(sql, kw_truncate)
      [] pattern = dangerousPatterns[4] -> SeparatorThenKeyword(sql, kw_alter)
      [] pattern = dangerousPatterns[5] -> BlockComment(sql)
      [] pattern = dangerousPatterns[6] -> LineComment(sql)
      [] pattern = dangerousPatterns[7] -> UnionSelect(sql)
      [] pattern = dangerousPatterns[8] -> ExecCall(sql)
      [] pattern = dangerousPatterns[9] -> StoredProcedure(sql)
      [] OTHER -> FALSE

NoPattern == "none"

\* the loop returns at the first pattern that matches
validateSqlQuery(sql) ==
    IF \E k \in 1..Len(dangerousPatterns) : RegExpTest(dangerousPatterns[k], sql)
    THEN [isValid |-> FALSE,
          error   |-> dangerousPatterns[
                          CHOOSE k \in 1..Len(dangerousPatterns) :
                              /\ RegExpTest(dangerousPatterns[k], sql)
                              /\ \A m \in 1..(k-1) :
                                     ~RegExpTest(dangerousPatterns[m], sql)]]
    ELSE [isValid |-> TRUE, error |-> NoPattern]

(***************************************************************************)
(* The sanitizer of the gateway: three substring tests on error.message,   *)
(* tried in order, then the message itself behind a fixed prefix.          *)
(***************************************************************************)
str_password ==
    <<"p","a","s","s","w","o","r","d">>

str_timeout ==
    <<"t","i","m","e","o","u","t">>

str_doesNotExist ==
    <<"d","o","e","s"," ","n","o","t"," ","e","x","i","s","t">>

msg_authFailed ==
    <<"D","a","t","a","b","a","s","e"," ","a","u","t","h","e","n","t","i","c",
      "a","t","i","o","n"," ","f","a","i","l","e","d","."," ","P","l","e","a",
      "s","e"," ","c","h","e","c","k"," ","c","r","e","d","e","n","t","i","a",
      "l","s",".">>

msg_timedOut ==
    <<"D","a","t","a","b","a","s","e"," ","c","o","n","n","e","c","t","i","o",
      "n"," ","t","i","m","e","d"," ","o","u","t","."," ","P","l","e","a","s",
      "e"," ","t","r","y"," ","a","g","a","i","n",".">>

msg_notExist ==
    <<"D","a","t","a","b","a","s","e"," ","t","a","b","l","e"," ","o","r"," ",
      "c","o","l","u","m","n"," ","d","o","e","s"," ","n","o","t"," ","e","x",
      "i","s","t",".">>

msg_prefix ==
    <<"D","a","t","a","b","a","s","e"," ","e","r","r","o","r",":"," ">>

\* formatDatabaseError without its timeout branch
formatDatabaseError_noTimeout(message) ==
    IF includes(message, str_password) THEN msg_authFailed
    ELSE IF includes(message, str_doesNotExist) THEN msg_notExist
    ELSE msg_prefix \o message

formatDatabaseError(message) ==
    IF includes(message, str_password) THEN msg_authFailed
    ELSE IF includes(message, str_timeout) THEN msg_timedOut
    ELSE IF includes(message, str_doesNotExist) THEN msg_notExist
    ELSE msg_prefix \o message

(***************************************************************************)
(* Errors of the pooled client: what pool.connect() and client.query()     *)
(* reject with.                                                            *)
(***************************************************************************)
err_password ==
    <<"p","a","s","s","w","o","r","d"," ","a","u","t","h","e","n","t","i","c",
      "a","t","i","o","n"," ","f","a","i","l","e","d"," ","f","o","r"," ","u",
      "s","e","r"," ","\"","m","c","p","_","u","s","e","r","\"">>

err_refused ==
    <<"c","o","n","n","e","c","t"," ","E","C","O","N","N","R","E","F","U","S",
      "E","D"," ","1","2","7",".","0",".","0",".","1",":","5","4","3","2">>

err_connectTimeout ==
    <<"t","i","m","e","o","u","t"," ","e","x","c","e","e","d","e","d"," ","w",
      "h","e","n"," ","t","r","y","i","n","g"," ","t","o"," ","c","o","n","n",
      "e","c","t">>

err_connectionTerminated ==
    <<"C","o","n","n","e","c","t","i","o","n"," ","t","e","r","m","i","n","a",
      "t","e","d"," ","d","u","e"," ","t","o"," ","c","o","n","n","e","c","t",
      "i","o","n"," ","t","i","m","e","o","u","t">>

err_permission ==
    <<"p","e","r","m","i","s","s","i","o","n"," ","d","e","n","i","e","d"," ",
      "f","o","r"," ","t","a","b","l","e"," ","t">>

err_relation ==
    <<"r","e","l","a","t","i","o","n"," ","\"","t","\""," ","d","o","e","s",
      " ","n","o","t"," ","e","x","i","s","t">>

err_statementTimeout ==
    <<"c","a","n","c","e","l","i","n","g"," ","s","t","a","t","e","m","e","n",
      "t"," ","d","u","e"," ","t","o"," ","s","t","a","t","e","m","e","n","t",
      " ","t","i","m","e","o","u","t">>

err_syntax ==
    <<"s","y","n","t","a","x"," ","e","r","r","o","r"," ","a","t"," ","o","r",
      " ","n","e","a","r"," ","\"","x","\"">>

NoError == <<>>

ConnectErrors ==
    {err_connectTimeout, err_connectionTerminated, err_password, err_refused}

QueryErrors == {err_permission, err_relation, err_statementTimeout, err_syntax}

(***************************************************************************)
(* Statements for the pure functions: every concatenation of at most       *)
(* MaxWords words.  The words carry the nine keywords of the classifier in *)
(* several letter cases, a token that merely starts with a keyword, a      *)
(* leading WITH, the separator and two kinds of white space.               *)
(***************************************************************************)
MaxWords == 3

w_select ==
    <<"s","e","l","e","c","t"," ","1">>

w_semi ==
    <<";">>

w_space ==
    <<" ">>

w_newline ==
    <<"\n">>

w_drop ==
    <<"d","r","o","p"," ">>

w_DROP ==
    <<"D","R","O","P"," ">>

w_truncate ==
    <<"t","r","u","n","c","a","t","e"," ">>

w_Alter ==
    <<"A","l","t","e","r"," ">>

w_grant ==
    <<"g","r","a","n","t"," ">>

w_REVOKE ==
    <<"R","E","V","O","K","E"," ">>

w_insert ==
    <<"i","n","s","e","r","t"," ">>

w_Delete ==
    <<"D","e","l","e","t","e"," ">>

w_update ==
    <<"u","p","d","a","t","e"," ">>

w_create ==
    <<"c","r","e","a","t","e"," ">>

w_with ==
    <<"w","i","t","h"," ">>

w_updates ==
    <<"u","p","d","a","t","e","s"," ">>

Words ==
    {w_select, w_semi, w_space, w_newline, w_drop, w_DROP, w_truncate, w_Alter,
     w_grant, w_REVOKE, w_insert, w_Delete, w_update, w_create, w_with, w_updates}

RECURSIVE Concatenations(_)
Concatenations(n) ==
    IF n = 0 THEN {<<>>}
    ELSE {s \o w : s \in Concatenations(n - 1), w \in Words}

Statements == UNION {Concatenations(n) : n \in 1..MaxWords}

\* statements for the patterns that the words above do not reach
s_blockComment ==
    <<"S","E","L","E","C","T"," ","1"," ","/","*"," ","x"," ","*","/">>

s_lineComment ==
    <<"S","E","L","E","C","T"," ","1"," ","-","-"," ","x">>

s_unionSelect ==
    <<"S","E","L","E","C","T"," ","a"," ","F","R","O","M"," ","t"," ","U","N","I","O","N"," ","S","E","L","E","C","T"," ","b"," ","F","R","O","M"," ","u">>

s_deleteAll ==
    <<"S","E","L","E","C","T"," ","1",";"," ","D","E","L","E","T","E"," ","F","R","O","M"," ","t"," ","W","H","E","R","E"," ","1","=","1">>

s_execCall ==
    <<"E","X","E","C","(","'","x","'",")">>

s_storedProcedure ==
    <<"E","X","E","C"," ","s","p","_","w","h","o">>

s_informationSchema ==
    <<"S","E","L","E","C","T"," ","*"," ","F","R","O","M"," ","i","n","f","o","r","m","a","t","i","o","n","_","s","c","h","e","m","a",".","t","a","b","l","e","s">>

s_pgCatalog ==
    <<"S","E","L","E","C","T"," ","*"," ","F","R","O","M"," ","p","g","_","c","a","t","a","l","o","g",".","p","g","_","t","a","b","l","e","s">>

s_xpProcedure ==
    <<"E","X","E","C"," ","x","p","_","c","m","d","s","h","e","l","l"," ","'","d","i","r","'">>

s_blockCommentLines ==
    <<"S","E","L","E","C","T"," ","1"," ","/","*"," ","x","\n","*","/">>

s_unionLines ==
    <<"S","E","L","E","C","T"," ","a"," ","F","R","O","M"," ","t"," ","U","N","I","O","N","\n","S","E","L","E","C","T"," ","b"," ","F","R","O","M"," ","u">>

ScreenInputs ==
    {s_blockComment, s_lineComment, s_unionSelect,
     s_deleteAll, s_execCall, s_storedProcedure,
     s_informationSchema, s_pgCatalog, s_xpProcedure,
     s_blockCommentLines, s_unionLines}

NoStatement == <<>>

FnIdle ==
    [classified |-> FALSE, validated |-> FALSE,
     isWrite |-> FALSE, utilsIsWrite |-> FALSE, securityIsWrite |-> FALSE,
     validation |-> [isValid |-> TRUE, error |-> NoPattern]]

(***************************************************************************)
(* Configuration: the identities, the privileged sets and the pool.        *)
(***************************************************************************)
NoUser == ""

Logins == {"preangelleo", "coleam00", "alice"}

HttpUsers == {"preangelleo", "alice", NoUser}

\* (process.env.PRIVILEGED_USERS || 'preangelleo,coleam00').split(',').map(trim),
\* with the variable unset
PRIVILEGED_USERS == {"preangelleo", "coleam00"}

ALLOWED_USERNAMES == {"preangelleo"}

feedback_PRIVILEGED_USERS == {"preangelleo"}

PoolMax == 10

NumReq == 2

Slots == 1..NumReq

submit_part1 ==
    <<"\n","\t","\t","\t","\t","\t","I","N","S","E","R","T"," ","I","N","T","O"," ","p","r","o","d",
      "u","c","t","_","i","m","p","r","o","v","e","m","e","n","t","_","s","u","g","g","e","s","t",
      "i","o","n","s"," ","\n","\t","\t","\t","\t","\t","(","p","r","o","d","u","c","t","_","n","a",
      "m","e",","," ","t","i","t","l","e",","," ","b","r","i","e","f",","," ","d","e","t","a","i",
      "l","e","d","_","s","u","g","g","e","s","t","i","o","n",","," ","p","r","i","o","r","i","t",
      "y",","," ","s","u","g","g","e","s","t","e","r","_","s","i","g","n","a","t","u","r","e",",",
      " ","c","r","e","a","t","e","d","_","a","t",","," ","u","p","d","a","t","e","d","_","a","t",
      ")","\n","\t","\t","\t","\t","\t","V","A","L","U","E","S"," ","(","'">>
submit_part2 ==
    <<"'",","," ","'">>
submit_part3 ==
    <<"'",","," ","N","U","L","L",","," ","N","U","L","L",","," ","'","m","e","d","i","u","m","'",
      ","," ","'">>
submit_part4 ==
    <<"'",","," ","C","U","R","R","E","N","T","_","T","I","M","E","S","T","A","M","P",","," ","C",
      "U","R","R","E","N","T","_","T","I","M","E","S","T","A","M","P",")","\n","\t","\t","\t","\t",
      "\t","R","E","T","U","R","N","I","N","G"," ","*","\n","\t","\t","\t","\t">>

get_select ==
    <<"\n","\t","\t","\t","\t","\t","S","E","L","E","C","T"," ","i","d",","," ","p","r","o","d","u",
      "c","t","_","n","a","m","e",","," ","t","i","t","l","e",","," ","b","r","i","e","f",","," ",
      "s","t","a","t","u","s",","," ","p","r","i","o","r","i","t","y",","," ","s","u","g","g","e",
      "s","t","e","r","_","s","i","g","n","a","t","u","r","e",","," ","c","r","e","a","t","e","d",
      "_","a","t",","," ","u","p","d","a","t","e","d","_","a","t",","," ","d","e","v","e","l","o",
      "p","e","r","_","n","o","t","e","s","\n","\t","\t","\t","\t","\t","F","R","O","M"," ","p","r",
      "o","d","u","c","t","_","i","m","p","r","o","v","e","m","e","n","t","_","s","u","g","g","e",
      "s","t","i","o","n","s","\n","\t","\t","\t","\t">>

get_orderBy ==
    <<" ","O","R","D","E","R"," ","B","Y"," ","c","r","e","a","t","e","d","_","a","t"," ","D","E",
      "S","C"," ","L","I","M","I","T"," ">>
update_part1 ==
    <<"\n","\t","\t","\t","\t","\t","\t","U","P","D","A","T","E"," ","p","r","o","d","u","c","t",
      "_","i","m","p","r","o","v","e","m","e","n","t","_","s","u","g","g","e","s","t","i","o","n",
      "s"," ","\n","\t","\t","\t","\t","\t","\t","S","E","T"," ","s","t","a","t","u","s"," ","=",
      " ","'">>
update_part2 ==
    <<"'",","," ","u","p","d","a","t","e","d","_","a","t"," ","="," ","C","U","R","R","E","N","T",
      "_","T","I","M","E","S","T","A","M","P","\n","\t","\t","\t","\t","\t">>

update_where ==
    <<" ","W","H","E","R","E"," ","i","d"," ","="," ">>

update_returning ==
    <<" ","R","E","T","U","R","N","I","N","G"," ","*">>

sqlSelect ==
    <<"S","E","L","E","C","T"," ","1">>

sqlDelete ==
    <<"D","E","L","E","T","E"," ","F","R","O","M"," ","t">>

sqlChainDrop ==
    <<"S","E","L","E","C","T"," ","1",";"," ","D","R","O","P"," ","T","A","B","L","E"," ","t">>

sqlChainDelete ==
    <<"S","E","L","E","C","T"," ","1",";"," ","D","E","L","E","T","E"," ","F","R","O","M"," ","t">>

sqlGrant ==
    <<"G","R","A","N","T"," ","A","L","L"," ","O","N"," ","t"," ","T","O"," ","x">>

title_bug ==
    <<"b","u","g">>

title_quoted ==
    <<"i","t","'","s">>

title_dashes ==
    <<"a"," ","-","-"," ","b">>

st_submitted ==
    <<"s","u","b","m","i","t","t","e","d">>

st_under_review ==
    <<"u","n","d","e","r","_","r","e","v","i","e","w">>

st_accepted ==
    <<"a","c","c","e","p","t","e","d">>

st_in_progress ==
    <<"i","n","_","p","r","o","g","r","e","s","s">>

st_completed ==
    <<"c","o","m","p","l","e","t","e","d">>

st_rejected ==
    <<"r","e","j","e","c","t","e","d">>

product_name_text ==
    <<"C","r","e","d","e","n","t","i","a","l","s"," ","M","C","P">>

suggestion_infix ==
    <<"-","s","u","g","g","e","s","t","i","o","n","-">>

now_text ==
    <<"1","7","5","6","7","0","0","0","0","0","0","0","0">>

login_preangelleo ==
    <<"p","r","e","a","n","g","e","l","l","e","o">>

login_coleam00 ==
    <<"c","o","l","e","a","m","0","0">>

login_alice ==
    <<"a","l","i","c","e">>

limit_text ==
    <<"1","0">>

id_text ==
    <<"1">>

SqlInputs == {NoStatement, sqlSelect, sqlDelete, sqlChainDrop, sqlChainDelete, sqlGrant}

LoginText(login) ==
    CASE login = "preangelleo" -> login_preangelleo
      [] login = "coleam00" -> login_coleam00
      [] OTHER -> login_alice

Titles == {title_bug, title_quoted, title_dashes}

StatusValues ==
    {st_submitted, st_under_review, st_accepted, st_in_progress, st_completed, st_rejected}

\* s.replace(/'/g, "''")
RECURSIVE EscapeQuotes(_)
EscapeQuotes(s) ==
    IF s = <<>> THEN <<>>
    ELSE (IF Head(s) = "'" THEN <<"'", "'">> ELSE <<Head(s)>>) \o EscapeQuotes(Tail(s))

\* the INSERT of submitProductSuggestion: brief and detailed_suggestion absent,
\* priority and suggester_signature at their defaults
submitSql(login, title) ==
    submit_part1 \o EscapeQuotes(product_name_text) \o submit_part2
        \o EscapeQuotes(title) \o submit_part3
        \o EscapeQuotes(LoginText(login) \o suggestion_infix \o now_text)
        \o submit_part4

\* the SELECT of getProductSuggestions: no filter, limit at its default
getSql == get_select \o get_orderBy \o limit_text

\* the UPDATE of updateSuggestionStatus: developer_notes and priority absent
updateSql(status) ==
    update_part1 \o status \o update_part2 \o update_where \o id_text \o update_returning

(***************************************************************************)
(* One request of the gateway.  pc is the handler's position: "connect" is *)
(* the await of pool.connect(), "query" the await of client.query(sql).    *)
(* fwd tells how far the statement went into the pooled client.            *)
(***************************************************************************)
IdleRequest ==
    [pc |-> "idle", via |-> "none", endpoint |-> "none", sql |-> NoStatement,
     username |-> NoUser, fwd |-> "no", status |-> 0, success |-> "none",
     error |-> "none",
     requiredRole |-> "none", allowedUsers |-> {}, operation |-> "none",
     executedBy |-> "none", timestamp |-> FALSE,
     raw |-> NoError, message |-> NoError, log |-> <<>>, responses |-> 0,
     engineCalls |-> 0, engineSql |-> NoStatement, releases |-> 0,
     statusArg |-> <<>>, rowCount |-> 0,
     transport |-> "none", apiThrew |-> FALSE, apiSuccess |-> "none",
     toolResults |-> 0, toolIsError |-> FALSE]

Request(via, endpoint, sql, username) ==
    [IdleRequest EXCEPT !.pc = "received", !.via = via, !.endpoint = endpoint,
                        !.sql = sql, !.username = username]

\* one console line written while the request is served; a line that does not
\* print the caller or an outcome carries "none" there
LogLine(stream, line, username, outcome, error) ==
    [stream |-> stream, line |-> line, username |-> username,
     outcome |-> outcome, error |-> error]

\* app.use((req, res, next) => { console.log(... method, path, ip); next() })
requestLogging(q) ==
    [q EXCEPT !.log = Append(@, LogLine("log", "request", "none", "none", NoError))]

Received(via, endpoint, sql, username) ==
    requestLogging(Request(via, endpoint, sql, username))

\* res.status(code).json({success: false, error})
Reply(q, code, error) ==
    [q EXCEPT !.pc = "done", !.status = code, !.success = "false",
              !.error = error, !.responses = @ + 1]

\* the handler of POST /api/query up to its first await
apiQuery(q) ==
    IF q.sql = NoStatement
    THEN Reply(q, 400, "SQL query is required")
    ELSE IF ~validateSqlQuery(q.sql).isValid
    THEN Reply(q, 400, "Invalid SQL query")
    ELSE IF isWriteOperation(q.sql)
    THEN Reply(q, 403, "Write operations not allowed. Use /api/execute endpoint.")
    ELSE [q EXCEPT !.pc = "connect", !.fwd = "acquire"]

\* apiExecute without its privilege check
apiExecute_noGate(q, privileged) ==
    IF q.sql = NoStatement
    THEN Reply(q, 400, "SQL statement is required")
    ELSE IF q.username = NoUser
    THEN Reply(q, 400, "Username is required for execute operations")
    ELSE IF ~validateSqlQuery(q.sql).isValid
    THEN Reply(q, 400, "Invalid SQL statement")
    ELSE [q EXCEPT !.pc = "connect", !.fwd = "acquire"]

\* the handler of POST /api/execute up to its first await
apiExecute(q, privileged) ==
    IF q.sql = NoStatement
    THEN Reply(q, 400, "SQL statement is required")
    ELSE IF q.username = NoUser
    THEN Reply(q, 400, "Username is required for execute operations")
    ELSE IF q.username \notin privileged
    THEN [Reply(q, 403, "Access denied. User does not have execute privileges.")
             EXCEPT !.requiredRole = "privileged", !.allowedUsers = privileged]
    ELSE IF ~validateSqlQuery(q.sql).isValid
    THEN Reply(q, 400, "Invalid SQL statement")
    ELSE [q EXCEPT !.pc = "connect", !.fwd = "acquire"]

\* replySuccess followed by the response of the catch block
replySuccess_caught(q) ==
    [q EXCEPT !.pc = "done", !.status = 500, !.success = "false",
              !.error = "formatDatabaseError", !.timestamp = TRUE,
              !.responses = @ + 2]

\* res.json({success: true, ...}) of either handler
replySuccess(q) ==
    [q EXCEPT !.pc = "done", !.status = 200, !.success = "true",
              !.timestamp = TRUE,
              !.responses = @ + 1,
              !.log = Append(@, LogLine("log", "executed",
                                        IF q.username = NoUser THEN "unknown"
                                        ELSE q.username,
                                        "executed", NoError)),
              !.executedBy = IF q.endpoint = "/api/query" /\ q.username = NoUser
                             THEN "unknown" ELSE q.username,
              !.operation = IF q.endpoint = "/api/execute"
                            THEN (IF isWriteOperation(q.sql) THEN "write" ELSE "read")
                            ELSE "none"]

\* the catch block of either handler
replyFailure(q, error) ==
    [q EXCEPT !.pc = "done", !.status = 500, !.success = "false",
              !.error = "formatDatabaseError",
              !.timestamp = TRUE, !.raw = error,
              !.message = formatDatabaseError(error),
              !.responses = @ + 1,
              !.log = Append(@, LogLine("error", "Error in " \o q.endpoint,
                                        "none", "error", error))]

\* the row of product_improvement_suggestions that the tools work on: its
\* status column, or no row yet
NoSuggestion == <<>>

\* what a statement of the feedback tools does to the row when it is executed:
\* the INSERT creates it with the column default, the UPDATE ... WHERE id
\* sets the status it was given if the row exists
executeSql(q, row) ==
    IF q.via = "submitProductSuggestion" /\ row = NoSuggestion
    THEN st_submitted
    ELSE IF q.via = "updateSuggestionStatus" /\ row # NoSuggestion
    THEN q.statusArg
    ELSE row

\* result.data?.[0] of the UPDATE ... RETURNING * of updateSuggestionStatus:
\* one row if the suggestion exists and none otherwise; the rows of the other
\* statements are not looked at by the model and count as one
rowsReturned(q, row) ==
    IF q.via = "updateSuggestionStatus" /\ row = NoSuggestion THEN 0 ELSE 1

\* connection.ts before the first getDb: let dbInstance = null.  The clients
\* made by postgres() are numbered 1, 2, ... in the order of their creation and
\* 0 stands for null; endCalls[i] counts the calls of end() on client i,
\* closing the calls of closeDb suspended at their await, and got is what the
\* last getDb returned
NoDb ==
    [dbInstance |-> 0, created |-> 0, endCalls |-> <<>>, closing |-> 0,
     closes |-> 0, op |-> "none", got |-> 0, gotEnded |-> FALSE, threw |-> FALSE]

Init ==
    /\ req = [r \in Slots |-> IdleRequest]
    /\ pool = 0
    /\ tables = 0
    /\ privilegedUsers = PRIVILEGED_USERS
    /\ allowedUsernames = ALLOWED_USERNAMES
    /\ hits = 0
    /\ suggestion = NoSuggestion
    /\ db = NoDb
    /\ stmt = NoStatement
    /\ fn = FnIdle

\* Enter that also adds the caller to the privileged set
Enter_grants(r, q) ==
    /\ req' = [req EXCEPT ![r] = q]
    /\ privilegedUsers' = privilegedUsers \cup {q.username}
    /\ UNCHANGED <<pool, tables, allowedUsernames, hits, suggestion, db, stmt, fn>>

Enter(r, q) ==
    /\ req' = [req EXCEPT ![r] = q]
    /\ UNCHANGED <<pool, tables, privilegedUsers, allowedUsernames, hits, suggestion, db, stmt, fn>>

\* a client posts to the gateway directly
PostQuery(r, sql, username) ==
    /\ req[r].pc = "idle"
    /\ Enter(r, apiQuery(Received("http", "/api/query", sql, username)))

PostExecute(r, sql, username) ==
    /\ req[r].pc = "idle"
    /\ Enter(r, apiExecute(Received("http", "/api/execute", sql, username),
                           privilegedUsers))

\* the MCP tools: callHttpApi(endpoint, 'POST', {sql, username: props.login})
queryDatabase(r, login, sql) ==
    /\ req[r].pc = "idle"
    /\ Enter(r, apiQuery(Received("queryDatabase", "/api/query", sql, login)))

\* registered only when ALLOWED_USERNAMES.has(props.login)
executeDatabase(r, login, sql) ==
    /\ req[r].pc = "idle"
    /\ login \in allowedUsernames
    /\ Enter(r, apiExecute(Received("executeDatabase", "/api/execute", sql, login),
                           privilegedUsers))

submitProductSuggestion(r, login, title) ==
    /\ req[r].pc = "idle"
    /\ Enter(r, apiExecute(Received("submitProductSuggestion", "/api/execute",
                                   submitSql(login, title), login),
                           privilegedUsers))

getProductSuggestions(r, login) ==
    /\ req[r].pc = "idle"
    /\ Enter(r, apiQuery(Received("getProductSuggestions", "/api/query", getSql, login)))

\* registered only when PRIVILEGED_USERS.has(props.login)
updateSuggestionStatus(r, login, status) ==
    /\ req[r].pc = "idle"
    /\ login \in feedback_PRIVILEGED_USERS
    /\ Enter(r, apiExecute([Received("updateSuggestionStatus", "/api/execute",
                                    updateSql(status), login)
                               EXCEPT !.statusArg = status],
                           privilegedUsers))

\* PoolConnect on a pool without a maximum
PoolConnect_unbounded(r) ==
    /\ req[r].pc = "connect"
    /\ pool' = pool + 1
    /\ req' = [req EXCEPT ![r].pc = "query", ![r].fwd = "query",
                           ![r].engineCalls = @ + 1, ![r].engineSql = req[r].sql]
    /\ UNCHANGED <<tables, privilegedUsers, allowedUsernames, hits, suggestion, db, stmt, fn>>

\* pool.connect() resolves and the handler calls client.query(sql)
PoolConnect(r) ==
    /\ req[r].pc = "connect"
    /\ pool < PoolMax
    /\ pool' = pool + 1
    /\ req' = [req EXCEPT ![r].pc = "query", ![r].fwd = "query",
                           ![r].engineCalls = @ + 1, ![r].engineSql = req[r].sql]
    /\ UNCHANGED <<tables, privilegedUsers, allowedUsernames, hits, suggestion, db, stmt, fn>>

\* pool.connect() rejects (connectionTimeoutMillis, or the server refuses)
PoolConnectFails(r, error) ==
    /\ req[r].pc = "connect"
    /\ req' = [req EXCEPT ![r] = replyFailure(req[r], error)]
    /\ UNCHANGED <<pool, tables, privilegedUsers, allowedUsernames, hits, suggestion, db, stmt, fn>>

\* client.query(sql) resolves; the finally block releases the client
QueryResolves(r) ==
    /\ req[r].pc = "query"
    /\ req' = [req EXCEPT ![r] = [replySuccess(req[r])
                                     EXCEPT !.releases = @ + 1,
                                            !.rowCount = rowsReturned(req[r], suggestion)]]
    /\ pool' = pool - 1
    /\ suggestion' = executeSql(req[r], suggestion)
    /\ UNCHANGED <<tables, privilegedUsers, allowedUsernames, hits, db, stmt, fn>>

\* QueryRejects that asks for a client again instead of answering
QueryRejects_retry(r, error) ==
    /\ req[r].pc = "query"
    /\ req' = [req EXCEPT ![r].pc = "connect", ![r].raw = error]
    /\ pool' = pool - 1
    /\ UNCHANGED <<tables, privilegedUsers, allowedUsernames, hits, suggestion, db, stmt, fn>>

\* QueryRejects whose client is never released
QueryRejects_leak(r, error) ==
    /\ req[r].pc = "query"
    /\ req' = [req EXCEPT ![r] = replyFailure(req[r], error)]
    /\ UNCHANGED <<pool, tables, privilegedUsers, allowedUsernames, hits, suggestion, db,
                   stmt, fn>>

\* client.query(sql) rejects; the finally block releases the client
QueryRejects(r, error) ==
    /\ req[r].pc = "query"
    /\ req' = [req EXCEPT ![r] = [replyFailure(req[r], error) EXCEPT !.releases = @ + 1]]
    /\ pool' = pool - 1
    /\ UNCHANGED <<tables, privilegedUsers, allowedUsernames, hits, suggestion, db, stmt, fn>>

\* the response is sent and the request object is dropped
Finish(r) ==
    /\ req[r].pc = "done"
    /\ req' = [req EXCEPT ![r] = IdleRequest]
    /\ UNCHANGED <<pool, tables, privilegedUsers, allowedUsernames, hits, suggestion, db, stmt, fn>>

\* GET /health answers at once and touches nothing
GetHealth == UNCHANGED vars

\* GET /api/tables: pool.connect() resolves and the handler runs its catalog
\* queries on the client
GetTablesConnect(limit) ==
    /\ tables < limit
    /\ pool < PoolMax
    /\ pool' = pool + 1
    /\ tables' = tables + 1
    /\ UNCHANGED <<req, privilegedUsers, allowedUsernames, hits, suggestion, db, stmt, fn>>

\* GET /api/tables answers (res.json, or the catch block after a query
\* rejected); the finally block releases the client
GetTablesRespond ==
    /\ tables > 0
    /\ pool' = pool - 1
    /\ tables' = tables - 1
    /\ UNCHANGED <<req, privilegedUsers, allowedUsernames, hits, suggestion, db, stmt, fn>>

Pipeline(connectErrors, queryErrors) ==
    \E r \in Slots :
        \/ PoolConnect(r)
        \/ \E error \in connectErrors : PoolConnectFails(r, error)
        \/ QueryResolves(r)
        \/ \E error \in queryErrors : QueryRejects(r, error)
        \/ Finish(r)

Next ==
    \/ \E r \in Slots, sql \in SqlInputs, username \in HttpUsers :
           PostQuery(r, sql, username)
    \/ \E r \in Slots, sql \in SqlInputs, username \in HttpUsers :
           PostExecute(r, sql, username)
    \/ Pipeline({err_connectTimeout}, {err_relation})

Spec == Init /\ [][Next]_vars

(***************************************************************************)
(* The MCP server in front of the gateway: every request is a tool call    *)
(* made under an authenticated GitHub login.                               *)
(***************************************************************************)
McpNext ==
    \/ \E r \in Slots, login \in Logins, sql \in SqlInputs \ {NoStatement} :
           queryDatabase(r, login, sql)
    \/ \E r \in Slots, login \in Logins, sql \in SqlInputs \ {NoStatement} :
           executeDatabase(r, login, sql)
    \/ \E r \in Slots, login \in Logins, title \in Titles :
           submitProductSuggestion(r, login, title)
    \/ \E r \in Slots, login \in Logins : getProductSuggestions(r, login)
    \/ \E r \in Slots, login \in Logins, status \in StatusValues :
           updateSuggestionStatus(r, login, status)
    \/ Pipeline({err_connectTimeout}, {err_relation})

McpSpec == Init /\ [][McpNext]_vars

(***************************************************************************)
(* The gateway with every error of the pooled client, on requests that     *)
(* take each path of the two handlers: missing field, rejected, denied,    *)
(* executed, failed at pool.connect() and failed at client.query().        *)
(***************************************************************************)
PathSqlInputs == {NoStatement, sqlSelect, sqlChainDrop, sqlDelete}

ErrNext ==
    \/ \E r \in Slots, sql \in PathSqlInputs : PostQuery(r, sql, "alice")
    \/ \E r \in Slots, sql \in PathSqlInputs, username \in HttpUsers :
           PostExecute(r, sql, username)
    \/ Pipeline(ConnectErrors, QueryErrors)

ErrorSpec == Init /\ [][ErrNext]_vars

\* the same requests with one error of each await
LiveNext ==
    \/ \E r \in Slots, sql \in PathSqlInputs : PostQuery(r, sql, "alice")
    \/ \E r \in Slots, sql \in PathSqlInputs, username \in HttpUsers :
           PostExecute(r, sql, username)
    \/ Pipeline({err_connectTimeout}, {err_relation})

\* pool.connect() settles within connectionTimeoutMillis, and the promise of
\* client.query() is settled by the driver
Settles(r) ==
    \/ PoolConnect(r)
    \/ PoolConnectFails(r, err_connectTimeout)
    \/ QueryResolves(r)
    \/ QueryRejects(r, err_relation)

LiveSpec == Init /\ [][LiveNext]_vars /\ \A r \in Slots : WF_vars(Settles(r))

(***************************************************************************)
(* The pool under load: GET /api/tables requests hold clients next to the  *)
(* requests of POST /api/query, so that all PoolMax clients get checked    *)
(* out.                                                                    *)
(***************************************************************************)
PoolNext ==
    \/ \E r \in Slots : PostQuery(r, sqlSelect, "alice")
    \/ GetTablesConnect(PoolMax)
    \/ GetTablesRespond
    \/ Pipeline({err_connectTimeout, err_connectionTerminated, err_refused},
                {err_statementTimeout})

PoolSpec == Init /\ [][PoolNext]_vars

(***************************************************************************)
(* The whole server: every handler of the gateway and every MCP tool.      *)
(***************************************************************************)
MaxTables == 1

ServerNext ==
    \/ GetHealth
    \/ GetTablesConnect(MaxTables)
    \/ GetTablesRespond
    \/ \E r \in Slots : PostQuery(r, sqlSelect, "alice")
    \/ \E r \in Slots : PostExecute(r, sqlDelete, "alice")
    \/ \E r \in Slots : queryDatabase(r, "alice", sqlSelect)
    \/ \E r \in Slots, login \in {"alice", "preangelleo"} :
           executeDatabase(r, login, sqlDelete)
    \/ \E r \in Slots, login \in {"alice", "preangelleo"} :
           submitProductSuggestion(r, login, title_bug)
    \/ \E r \in Slots : getProductSuggestions(r, "alice")
    \/ \E r \in Slots, login \in Logins :
           updateSuggestionStatus(r, login, st_submitted)
    \/ Pipeline({err_connectTimeout}, {err_relation})

ServerSpec == Init /\ [][ServerNext]_vars

(***************************************************************************)
(* The pure functions, applied to one statement drawn from Statements.     *)
(***************************************************************************)
FnInit ==
    /\ req = [r \in Slots |-> IdleRequest]
    /\ pool = 0
    /\ tables = 0
    /\ privilegedUsers = PRIVILEGED_USERS
    /\ allowedUsernames = ALLOWED_USERNAMES
    /\ hits = 0
    /\ suggestion = NoSuggestion
    /\ db = NoDb
    /\ stmt \in Statements \cup ScreenInputs
    /\ fn = FnIdle

Classify ==
    /\ ~fn.classified
    /\ fn' = [fn EXCEPT !.classified = TRUE,
                        !.isWrite = isWriteOperation(stmt),
                        !.utilsIsWrite = utils_isWriteOperation(stmt),
                        !.securityIsWrite = security_isWriteOperation(stmt)]
    /\ UNCHANGED <<req, pool, tables, privilegedUsers, allowedUsernames, hits, suggestion, db, stmt>>

Validate ==
    /\ ~fn.validated
    /\ fn' = [fn EXCEPT !.validated = TRUE, !.validation = validateSqlQuery(stmt)]
    /\ UNCHANGED <<req, pool, tables, privilegedUsers, allowedUsernames, hits, suggestion, db, stmt>>

FnNext == Classify \/ Validate

FnSpec == FnInit /\ [][FnNext]_vars

(***************************************************************************)
(* The database client of the MCP server (database/connection.ts): getDb   *)
(* and closeDb are called from handlers that interleave at every await.    *)
(***************************************************************************)
MaxInstances == 3

MaxCloses == 3

\* getDb(databaseUrl): if (!dbInstance) dbInstance = postgres(...); return dbInstance
getDb ==
    LET fresh == db.dbInstance = 0
        instance == IF fresh THEN db.created + 1 ELSE db.dbInstance
        calls == IF fresh THEN Append(db.endCalls, 0) ELSE db.endCalls
    IN  /\ fresh => db.created < MaxInstances
        /\ db' = [db EXCEPT !.dbInstance = instance,
                            !.created = IF fresh THEN @ + 1 ELSE @,
                            !.endCalls = calls,
                            !.op = "getDb",
                            !.got = instance,
                            !.gotEnded = calls[instance] > 0]
        /\ UNCHANGED <<req, pool, tables, privilegedUsers, allowedUsernames, hits,
                       suggestion, stmt, fn>>

\* closeDb() up to its await: with no client it returns at once, otherwise it
\* calls dbInstance.end() and is suspended
closeDb ==
    /\ db.closes < MaxCloses
    /\ db' = IF db.dbInstance = 0
             THEN [db EXCEPT !.closes = @ + 1, !.op = "closeDb"]
             ELSE [db EXCEPT !.closes = @ + 1,
                             !.endCalls[db.dbInstance] = @ + 1,
                             !.closing = @ + 1, !.op = "end"]
    /\ UNCHANGED <<req, pool, tables, privilegedUsers, allowedUsernames, hits,
                   suggestion, stmt, fn>>

\* the promise of end() settles and a suspended closeDb resumes: the catch
\* block logs if end() threw, the finally block sets dbInstance = null
closeDbResumes(threw) ==
    /\ db.closing > 0
    /\ db' = [db EXCEPT !.closing = @ - 1, !.dbInstance = 0,
                        !.op = "closeDb", !.threw = threw]
    /\ UNCHANGED <<req, pool, tables, privilegedUsers, allowedUsernames, hits,
                   suggestion, stmt, fn>>

DbNext ==
    \/ getDb
    \/ closeDb
    \/ \E threw \in BOOLEAN : closeDbResumes(threw)

DbSpec == Init /\ [][DbNext]_vars

(***************************************************************************)
(* The MCP tools up to their results: each tool awaits callHttpApi and     *)
(* returns one result to the MCP client.                                   *)
(***************************************************************************)
\* what fetch and response.json() do with the answer of the gateway: the
\* answer arrives and parses, fetch rejects, or the body is not JSON
Transports == {"ok", "network", "unparsable"}

\* callHttpApi with no try around its body
callHttpApi_throws(q, transport) ==
    IF transport = "ok" /\ q.status \in 200..299
    THEN [threw |-> FALSE, success |-> q.success]
    ELSE [threw |-> TRUE, success |-> "none"]

\* callHttpApi(endpoint, method, body): the parsed body of a 2xx answer;
\* everything else is thrown inside the try and caught, and the function
\* resolves to {success: false, error: 'API call failed: ...', timestamp}
callHttpApi(q, transport) ==
    IF transport = "ok" /\ q.status \in 200..299
    THEN [threw |-> FALSE, success |-> q.success]
    ELSE [threw |-> FALSE, success |-> "false"]

\* the handler of a tool around its callHttpApi: createErrorResponse if
\* !result.success (and from the catch block, had callHttpApi thrown);
\* updateSuggestionStatus also if no row came back
toolResult(q, transport) ==
    LET result == callHttpApi(q, transport)
    IN  [q EXCEPT !.pc = "returned",
                  !.transport = transport,
                  !.apiThrew = result.threw,
                  !.apiSuccess = result.success,
                  !.toolResults = @ + 1,
                  !.toolIsError =
                      \/ result.threw
                      \/ result.success # "true"
                      \/ q.via = "updateSuggestionStatus" /\ q.rowCount = 0]

\* the gateway has answered and the await of callHttpApi in the tool resumes
ToolReturns(r, transport) ==
    /\ req[r].pc = "done"
    /\ req' = [req EXCEPT ![r] = toolResult(req[r], transport)]
    /\ UNCHANGED <<pool, tables, privilegedUsers, allowedUsernames, hits, suggestion,
                   db, stmt, fn>>

\* the MCP client has got the result of the tool
ToolFinish(r) ==
    /\ req[r].pc = "returned"
    /\ req' = [req EXCEPT ![r] = IdleRequest]
    /\ UNCHANGED <<pool, tables, privilegedUsers, allowedUsernames, hits, suggestion,
                   db, stmt, fn>>

\* listTables: callHttpApi('/api/tables'); the gateway's handler acquires a
\* client and runs its catalog queries
listTables(r) ==
    /\ req[r].pc = "idle"
    /\ pool < PoolMax
    /\ pool' = pool + 1
    /\ tables' = tables + 1
    /\ req' = [req EXCEPT ![r] = [Received("listTables", "/api/tables",
                                           NoStatement, NoUser)
                                     EXCEPT !.pc = "tables"]]
    /\ UNCHANGED <<privilegedUsers, allowedUsernames, hits, suggestion, db, stmt, fn>>

\* GET /api/tables answers the tool: res.json({success: true, ...}), or the
\* catch block after a catalog query rejected; the finally block releases
\* the client
listTablesResponds(r, error) ==
    /\ req[r].pc = "tables"
    /\ pool' = pool - 1
    /\ tables' = tables - 1
    /\ req' = [req EXCEPT ![r] =
                  IF error = NoError
                  THEN [req[r] EXCEPT !.pc = "done", !.status = 200,
                                      !.success = "true", !.timestamp = TRUE,
                                      !.responses = @ + 1]
                  ELSE replyFailure(req[r], error)]
    /\ UNCHANGED <<privilegedUsers, allowedUsernames, hits, suggestion, db, stmt, fn>>

ToolNext ==
    \/ \E r \in Slots : listTables(r)
    \/ \E r \in Slots, error \in {NoError, err_relation} : listTablesResponds(r, error)
    \/ \E r \in Slots : queryDatabase(r, "alice", sqlSelect)
    \/ \E r \in Slots : executeDatabase(r, "preangelleo", sqlDelete)
    \/ \E r \in Slots : submitProductSuggestion(r, "alice", title_bug)
    \/ \E r \in Slots : getProductSuggestions(r, "alice")
    \/ \E r \in Slots : updateSuggestionStatus(r, "preangelleo", st_submitted)
    \/ \E r \in Slots : PoolConnect(r)
    \/ \E r \in Slots : QueryResolves(r)
    \/ \E r \in Slots : QueryRejects(r, err_relation)
    \/ \E r \in Slots, transport \in Transports : ToolReturns(r, transport)
    \/ \E r \in Slots : ToolFinish(r)

ToolSpec == Init /\ [][ToolNext]_vars

(***************************************************************************)
(* The legacy database wrapper (database/utils.ts): withDatabase hands its *)
(* operation a client whose unsafe(sql) posts the statement to the gateway.*)
(***************************************************************************)
\* httpDb.unsafe(sql): endpoint = isWriteOperation(sql) ? '/api/execute' :
\* '/api/query', then POST {sql, username}
withDatabase(r, sql, username) ==
    LET isWrite == utils_isWriteOperation(sql)
        endpoint == IF isWrite THEN "/api/execute" ELSE "/api/query"
        q == Received("withDatabase", endpoint, sql, username)
    IN  /\ req[r].pc = "idle"
        /\ Enter(r, IF isWrite THEN apiExecute(q, privilegedUsers) ELSE apiQuery(q))

WrapperNext ==
    \/ \E r \in Slots, sql \in SqlInputs, username \in {"alice", "preangelleo"} :
           withDatabase(r, sql, username)
    \/ Pipeline({err_connectTimeout}, {err_relation})

WrapperSpec == Init /\ [][WrapperNext]_vars

(***************************************************************************)
(* The rate limiter in front of the routes.  The specifications above      *)
(* describe requests that the limiter let through; here every request of   *)
(* one source address passes the limiter first.                            *)
(***************************************************************************)
\* rateLimit({windowMs: 15 * 60 * 1000, max: 100, message: {error: ...}})
limiter_max == 100

\* app.use(limiter) runs ahead of the logging middleware and of the routes:
\* the n-th request of the window is answered by the limiter itself once n
\* exceeds max, and by its route otherwise
limiter(n, endpoint, sql, username, privileged) ==
    IF n > limiter_max
    THEN [Request("http", endpoint, sql, username)
            EXCEPT !.pc = "done", !.status = 429,
                   !.error = "Too many requests, please try again later.",
                   !.responses = @ + 1]
    ELSE IF endpoint = "/api/query"
    THEN apiQuery(Received("http", endpoint, sql, username))
    ELSE apiExecute(Received("http", endpoint, sql, username), privileged)

\* the hit counter of the window; it is compared with max only, so the model
\* stops counting one past max
limiter_increment(n) == IF n > limiter_max THEN n ELSE n + 1

\* Limited that also records the caller as privileged
Limited_grants(r, endpoint, sql, username) ==
    /\ req[r].pc = "idle"
    /\ hits' = limiter_increment(hits)
    /\ req' = [req EXCEPT ![r] = limiter(hits', endpoint, sql, username,
                                         privilegedUsers)]
    /\ privilegedUsers' = privilegedUsers \cup {username}
    /\ UNCHANGED <<pool, tables, allowedUsernames, suggestion, db, stmt, fn>>

\* a request of the source address arrives at the gateway
Limited(r, endpoint, sql, username) ==
    /\ req[r].pc = "idle"
    /\ hits' = limiter_increment(hits)
    /\ req' = [req EXCEPT ![r] = limiter(hits', endpoint, sql, username,
                                         privilegedUsers)]
    /\ UNCHANGED <<pool, tables, privilegedUsers, allowedUsernames, suggestion, db,
                   stmt, fn>>

\* windowMs have passed: the store of the limiter forgets its hits
WindowReset ==
    /\ hits > 0
    /\ hits' = 0
    /\ UNCHANGED <<req, pool, tables, privilegedUsers, allowedUsernames, suggestion,
                   db, stmt, fn>>

LimitNext ==
    \/ \E r \in Slots : Limited(r, "/api/query", sqlSelect, "alice")
    \/ \E r \in Slots : Limited(r, "/api/execute", sqlDelete, "alice")
    \/ WindowReset
    \/ Pipeline({err_connectTimeout}, {err_relation})

LimitSpec == Init /\ [][LimitNext]_vars

(***************************************************************************)
(* The vocabulary of the claims.  classify, as the specification states    *)
(* it: the leading token of the trimmed, lower-cased statement is one of   *)
(* nine keywords.                                                          *)
(***************************************************************************)
WordChars ==
    {LowerChars[i] : i \in 1..26}
        \cup {"0","1","2","3","4","5","6","7","8","9","_"}

LeadingToken(sql) ==
    LET t == toLowerCase(trim(sql))
        n == IF \A i \in 1..Len(t) : t[i] \in WordChars
             THEN Len(t)
             ELSE (CHOOSE i \in 1..Len(t) :
                       /\ t[i] \notin WordChars
                       /\ \A k \in 1..(i-1) : t[k] \in WordChars) - 1
    IN  SubSeq(t, 1, n)

WriteVocabulary ==
    {kw_insert, kw_update, kw_delete, kw_create, kw_drop, kw_alter, kw_truncate,
     kw_grant, kw_revoke}

ClassifiedWrite(sql) == LeadingToken(sql) \in WriteVocabulary

\* kw stands in sql as a token of its own, in any letter case
HasKeyword(sql, kw) ==
    LET s == toLowerCase(sql)
    IN  \E i \in 1..Len(s) :
          /\ MatchesAt(s, i, kw)
          /\ (i = 1 \/ s[i-1] \notin WordChars)
          /\ (i + Len(kw) > Len(s) \/ s[i + Len(kw)] \notin WordChars)

\* an INSERT, UPDATE, DELETE or DDL statement somewhere in the text
ModifiesData(sql) ==
    \E kw \in {kw_insert, kw_update, kw_delete, kw_create, kw_drop, kw_alter,
               kw_truncate} : HasKeyword(sql, kw)

DestructiveKeywords == {kw_drop, kw_truncate, kw_alter, kw_grant, kw_revoke}

\* ";", blanks, then a destructive keyword followed by white space
SeparatorThenDestructive(sql) ==
    LET s == toLowerCase(sql)
    IN  \E i \in 1..Len(s), kw \in DestructiveKeywords :
          /\ s[i] = ";"
          /\ \E j \in (i+1)..Len(s) :
                /\ \A k \in (i+1)..(j-1) : s[k] \in {" ", "\t"}
                /\ MatchesAt(s, j, kw)
                /\ j + Len(kw) <= Len(s)
                /\ IsWhiteSpace(s[j + Len(kw)])

Arrived(r) == req[r].pc # "idle" /\ req[r].sql # NoStatement

Valid(r) == validateSqlQuery(req[r].sql).isValid

\* the statement was handed to the pooled client (pool.connect, then client.query)
Forwarded(r) == req[r].fwd # "no"

\* client.query(sql) was called
Executed(r) == req[r].fwd = "query"

Privileged(r) == req[r].username \in privilegedUsers

Answered(r, code) == req[r].pc = "done" /\ req[r].status = code

McpTools ==
    {"queryDatabase", "executeDatabase", "submitProductSuggestion",
     "getProductSuggestions", "updateSuggestionStatus"}

\* C1: a statement is forwarded to the Execution Engine only if the validator
\* accepted it and it is classified Read (leading keyword outside the nine write
\* keywords) or its identity is in the privileged set.
C1_ForwardedOnlyIfValidAndAuthorized ==
    \A r \in Slots :
        Forwarded(r) =>
            /\ Valid(r)
            /\ (~ClassifiedWrite(req[r].sql) \/ Privileged(r))

\* C2: for a valid Write statement posted to /api/execute with an identity, the
\* statement is forwarded to the Execution Engine iff the identity is privileged;
\* an identity outside the set is answered 403 and the engine is never called.
C2_ExecuteWriteIffPrivileged ==
    \A r \in Slots :
        ( /\ Arrived(r)
          /\ req[r].endpoint = "/api/execute"
          /\ req[r].username # NoUser
          /\ Valid(r)
          /\ (ClassifiedWrite(req[r].sql) \/ isWriteOperation(req[r].sql)) )
        => /\ Forwarded(r) <=> Privileged(r)
           /\ ~Privileged(r) => Answered(r, 403) /\ ~Forwarded(r)
           /\ Answered(r, 200) => Executed(r)

C2_Witness ==
    \E r1, r2 \in Slots :
        /\ req[r1].endpoint = "/api/execute" /\ req[r2].endpoint = "/api/execute"
        /\ ClassifiedWrite(req[r1].sql) /\ ClassifiedWrite(req[r2].sql)
        /\ Valid(r1) /\ Valid(r2)
        /\ Privileged(r1) /\ Executed(r1) /\ Answered(r1, 200)
        /\ req[r2].username = "alice" /\ Answered(r2, 403)

\* C3: every valid Read statement with a non-empty identity is forwarded to the
\* Execution Engine on /api/query and on /api/execute, and two requests that
\* differ only in privileged-set membership are treated alike.
C3_ReadForwardedForAnyIdentity ==
    /\ \A r \in Slots :
          ( /\ Arrived(r)
            /\ req[r].username # NoUser
            /\ Valid(r)
            /\ ~ClassifiedWrite(req[r].sql) )
          => Forwarded(r)
    /\ \A r1, r2 \in Slots :
          ( /\ Arrived(r1) /\ Arrived(r2)
            /\ req[r1].endpoint = req[r2].endpoint
            /\ req[r1].sql = req[r2].sql
            /\ req[r1].username # NoUser /\ req[r2].username # NoUser
            /\ Valid(r1)
            /\ ~ClassifiedWrite(req[r1].sql) )
          => (Forwarded(r1) <=> Forwarded(r2))

\* C4: a statement on the deny-list is answered 400 and never executed, whatever
\* the identity and on both endpoints.
C4_InvalidAnswered400 ==
    \A r \in Slots :
        (Arrived(r) /\ ~Valid(r)) => Answered(r, 400) /\ ~Forwarded(r)

\* C5: on /api/query an invalid statement is answered 400, a valid Write
\* statement 403, and only a valid Read statement is executed, whatever the
\* identity.
C5_QueryNeverForwardsWrite ==
    \A r \in Slots :
        (Arrived(r) /\ req[r].endpoint = "/api/query") =>
            /\ ~Valid(r) => Answered(r, 400)
            /\ (Valid(r) /\ ClassifiedWrite(req[r].sql)) => Answered(r, 403)
            /\ Forwarded(r) => Valid(r) /\ ~ClassifiedWrite(req[r].sql)

\* C6: on /api/execute a request without identity is answered 400 and not
\* executed; a valid request of a non-privileged identity is answered 403 exactly
\* when its statement is Write; the 403 body names the required role and the
\* allowed identities.
C6_ExecuteDeniesExactlyWrites ==
    \A r \in Slots :
        (Arrived(r) /\ req[r].endpoint = "/api/execute") =>
            /\ req[r].username = NoUser => Answered(r, 400) /\ ~Forwarded(r)
            /\ (req[r].username # NoUser /\ ~Privileged(r) /\ Valid(r)) =>
                   (Answered(r, 403) <=> ClassifiedWrite(req[r].sql))
            /\ Answered(r, 403) =>
                   /\ req[r].requiredRole = "privileged"
                   /\ req[r].allowedUsers = privilegedUsers

\* C7: no statement that queryDatabase gets forwarded through /api/query holds an
\* INSERT, UPDATE, DELETE or DDL statement anywhere in its text.
C7_QueryPathCannotModify ==
    \A r \in Slots :
        ( /\ req[r].via = "queryDatabase"
          /\ req[r].endpoint = "/api/query"
          /\ Forwarded(r) )
        => ~ModifiesData(req[r].sql)

\* C8: no MCP tool call made under a login outside ALLOWED_USERNAMES gets a
\* Write statement executed.
C8_OnlyAllowedLoginWrites ==
    \A r \in Slots :
        (req[r].via \in McpTools /\ req[r].username \notin ALLOWED_USERNAMES)
        => ~(Executed(r) /\ ClassifiedWrite(req[r].sql))

\* C9: classify returns Write exactly for the statements whose leading keyword is
\* one of the nine, whatever the letter case and the leading white space, and
\* the three copies of the classifier agree.
C9_ClassifyByLeadingKeyword ==
    fn.classified =>
        /\ fn.isWrite <=> ClassifiedWrite(stmt)
        /\ fn.utilsIsWrite <=> fn.isWrite
        /\ fn.securityIsWrite <=> fn.isWrite

\* C10: validate rejects, with a reason, every statement in which a separator is
\* followed by drop, truncate, alter, grant or revoke, in any letter case.
C10_SeparatorThenDestructiveRejected ==
    (fn.validated /\ SeparatorThenDestructive(stmt)) =>
        /\ ~fn.validation.isValid
        /\ fn.validation.error # NoPattern

(***************************************************************************)
(* The shapes that validate is specified to reject.                        *)
(***************************************************************************)
kw_information_schema ==
    <<"i","n","f","o","r","m","a","t","i","o","n","_","s","c","h","e","m","a">>

kw_pg_catalog ==
    <<"p","g","_","c","a","t","a","l","o","g">>

kw_xp ==
    <<"x","p","_">>

\* an inline comment, on one line or over several, or a line comment
HasComment(sql) ==
    \/ \E i \in 1..Len(sql) :
          /\ MatchesAt(sql, i, <<"/","*">>)
          /\ \E j \in (i+2)..Len(sql) : MatchesAt(sql, j, <<"*","/">>)
    \/ includes(sql, <<"-","-">>)

\* UNION ... SELECT, whatever lies between the two words
HasUnionSelect(sql) ==
    LET s == toLowerCase(sql)
    IN  \E i \in 1..Len(s) :
          /\ MatchesAt(s, i, kw_union)
          /\ \E j \in (i+5)..Len(s) : MatchesAt(s, j, kw_select)

HasSystemCatalog(sql) ==
    \/ includes(toLowerCase(sql), kw_information_schema)
    \/ includes(toLowerCase(sql), kw_pg_catalog)

HasPrivilegedProcedure(sql) ==
    \/ includes(toLowerCase(sql), kw_exec)
    \/ includes(toLowerCase(sql), kw_sp)
    \/ includes(toLowerCase(sql), kw_xp)

NoDenyListMatch(sql) ==
    \A k \in 1..Len(dangerousPatterns) : ~RegExpTest(dangerousPatterns[k], sql)

\* C11: validate rejects every statement that contains a comment, a UNION ...
\* SELECT, a system catalog reference or a privileged execution procedure, and
\* accepts a statement exactly when no deny-list pattern matches it.
C11_DenyListShapesRejected ==
    fn.validated =>
        /\ ( \/ HasComment(stmt)
             \/ HasUnionSelect(stmt)
             \/ HasSystemCatalog(stmt)
             \/ HasPrivilegedProcedure(stmt) ) => ~fn.validation.isValid
        /\ fn.validation.isValid <=> NoDenyListMatch(stmt)

(***************************************************************************)
(* Execution failures: what the caller gets and what the console gets.     *)
(***************************************************************************)
str_permission ==
    <<"p","e","r","m","i","s","s","i","o","n">>

CategoryMessages == {msg_authFailed, msg_timedOut, msg_notExist}

\* the request ended in the catch block of its handler
Failed(r) == req[r].pc = "done" /\ req[r].status = 500

\* a console line of the request holds the raw error
RawLogged(r) ==
    \E i \in DOMAIN req[r].log : req[r].log[i].error = req[r].raw

\* C12: after an execution failure the error string of the response is a fixed
\* category message or a generic message, it never contains the whole raw
\* driver error text, and the raw error is in the console lines of the request.
C12_RawErrorOnlyInLog ==
    \A r \in Slots :
        Failed(r) =>
            /\ \/ req[r].message \in CategoryMessages
               \/ startsWith(req[r].message, msg_prefix)
            /\ ~includes(req[r].message, req[r].raw)
            /\ RawLogged(r)

\* the four kinds of the sanitizer, read off the message it returns
KindOf(message) ==
    IF message = msg_authFailed THEN "AuthFailure"
    ELSE IF message = msg_timedOut THEN "Timeout"
    ELSE IF message = msg_notExist THEN "SchemaError"
    ELSE "Generic"

\* the kind that the class of a driver error calls for
ErrorClass(raw) ==
    IF includes(raw, str_password) \/ includes(raw, str_permission)
    THEN "AuthFailure"
    ELSE IF includes(raw, str_timeout) THEN "Timeout"
    ELSE IF includes(raw, str_doesNotExist) THEN "SchemaError"
    ELSE "Generic"

\* C13: the sanitizer of the gateway maps a password or permission error to
\* AuthFailure, a timeout to Timeout, a missing table or column to SchemaError
\* and every other error to Generic.
C13_SanitizeKinds ==
    \A r \in Slots :
        Failed(r) => KindOf(req[r].message) = ErrorClass(req[r].raw)

\* C14: every failure response is 400 (rejected), 403 (denied) or 500 (failed)
\* and its body carries success=false, an error message and a timestamp.
C14_FailureEnvelope ==
    \A r \in Slots :
        (req[r].pc = "done" /\ req[r].status # 200) =>
            /\ req[r].status \in {400, 403, 500}
            /\ req[r].status = 500 <=> Forwarded(r)
            /\ req[r].success = "false"
            /\ req[r].error # "none"
            /\ req[r].timestamp

\* the console lines of the request that name the caller and an outcome
AuditRecords(r) ==
    {i \in DOMAIN req[r].log :
        req[r].log[i].username # "none" /\ req[r].log[i].outcome # "none"}

\* C15: a request that reached its terminal state, whether rejected, denied,
\* executed or failed, has produced exactly one audit record with its identity
\* and its outcome.
C15_OneAuditRecordPerRequest ==
    \A r \in Slots :
        req[r].pc = "done" => Cardinality(AuditRecords(r)) = 1

\* the handler is suspended at an await
InFlight(r) == req[r].pc \in {"connect", "query"}

C17_EngineCalledAtMostOnce ==
    \A r \in Slots :
        /\ req[r].engineCalls <= 1
        /\ req[r].engineCalls = 1 <=> Executed(r)
        /\ Executed(r) => req[r].engineSql = req[r].sql
        /\ Failed(r) => req[r].engineCalls = (IF req[r].fwd = "query" THEN 1 ELSE 0)

\* a write of a privileged user failed at client.query() after one call
C17_Witness ==
    \E r \in Slots :
        /\ Failed(r)
        /\ req[r].endpoint = "/api/execute"
        /\ req[r].engineCalls = 1
        /\ req[r].engineSql = sqlDelete

\* the requests whose statement is at the Execution Engine
AtEngine == {r \in Slots : req[r].pc = "query"}

\* C18: the clients checked out, and so the statements in flight, never exceed
\* the pool capacity, and a request that waits for a client while all are
\* checked out does not reach client.query in that state.
C18_PoolBoundsInFlight ==
    /\ [](/\ pool <= PoolMax
          /\ Cardinality(AtEngine) + tables = pool)
    /\ [][\A r \in Slots :
              (req[r].pc = "connect" /\ pool = PoolMax) => req'[r].pc # "query"]_vars

\* all clients are checked out, one by a request of POST /api/query, while
\* another request waits for a client
C18_Witness ==
    /\ pool = PoolMax
    /\ \E r1, r2 \in Slots : req[r1].pc = "query" /\ req[r2].pc = "connect"

\* what pool.connect() rejects with when connectionTimeoutMillis elapses
AcquireTimeouts == {err_connectTimeout, err_connectionTerminated}

\* C19: a request that waits while all clients are checked out and whose
\* pool.connect() then times out is answered 500 with the fixed timeout message,
\* its statement was never given to client.query, and the raw timeout error is
\* on the console.
C19_AcquireTimeout ==
    [][\A r \in Slots :
          ( /\ req[r].pc = "connect"
            /\ pool = PoolMax
            /\ req'[r].pc = "done"
            /\ req'[r].raw \in AcquireTimeouts ) =>
              /\ req'[r].status = 500
              /\ req'[r].message = msg_timedOut
              /\ ~includes(req'[r].message, req'[r].raw)
              /\ req'[r].engineCalls = 0
              /\ req'[r].engineSql = NoStatement
              /\ \E i \in DOMAIN req'[r].log :
                     /\ req'[r].log[i].stream = "error"
                     /\ req'[r].log[i].error = req'[r].raw]_vars

\* the pool is still exhausted and a request that waited has been answered with
\* the timeout message
C19_Witness ==
    /\ pool = PoolMax
    /\ \E r \in Slots :
          /\ Failed(r)
          /\ req[r].fwd = "acquire"
          /\ req[r].raw = err_connectTimeout
          /\ req[r].message = msg_timedOut

\* C20: the privileged set of the gateway and the allow-list of the MCP server
\* keep the value they got at process start: no handler and no tool call adds
\* a member or removes one.
C20_PrivilegedSetsFixed ==
    /\ [](privilegedUsers = PRIVILEGED_USERS /\ allowedUsernames = ALLOWED_USERNAMES)
    /\ [][/\ privilegedUsers' = privilegedUsers
          /\ allowedUsernames' = allowedUsernames]_vars

\* a denial has listed the privileged set, a tool call of the allowed login has
\* been executed and GET /api/tables holds a client
C20_Witness ==
    /\ tables > 0
    /\ \E r1, r2 \in Slots :
          /\ Answered(r1, 403)
          /\ req[r1].allowedUsers = PRIVILEGED_USERS
          /\ req[r2].via = "executeDatabase"
          /\ Answered(r2, 200)


(***************************************************************************)
(* Independence of requests.                                               *)
(***************************************************************************)
SameRequest(r1, r2) ==
    /\ req[r1].endpoint = req[r2].endpoint
    /\ req[r1].sql = req[r2].sql
    /\ req[r1].username = req[r2].username

\* the pooled client gave both requests the same result: no error, or the
\* same error
SameEngineResult(r1, r2) == req[r1].raw = req[r2].raw

SameOutcome(r1, r2) ==
    /\ req[r1].status = req[r2].status
    /\ Executed(r1) <=> Executed(r2)

\* the limiter passed the request on to its route
Admitted(r) == req[r].status # 429

\* C21 as stated: two answered requests with the same endpoint, statement and
\* identity and the same engine result have the same status code and are both
\* executed or both not, whatever was handled before or next to them.
C21_Independent ==
    \A r1, r2 \in Slots :
        req[r1].pc = "done" /\ req[r2].pc = "done"
            /\ SameRequest(r1, r2) /\ SameEngineResult(r1, r2)
        => SameOutcome(r1, r2)

\* C21, for requests the rate limiter admitted: two answered requests with the
\* same endpoint, statement and identity and the same engine result have the
\* same status code and are both executed or both not.
C21_IndependentWhenAdmitted ==
    \A r1, r2 \in Slots :
        req[r1].pc = "done" /\ req[r2].pc = "done"
            /\ Admitted(r1) /\ Admitted(r2)
            /\ SameRequest(r1, r2) /\ SameEngineResult(r1, r2)
        => SameOutcome(r1, r2)

\* two equal requests are answered 200, one of them as the last request the
\* window admits
C21_Witness ==
    \E r1, r2 \in Slots :
        /\ r1 # r2
        /\ hits = limiter_max
        /\ SameRequest(r1, r2)
        /\ Answered(r1, 200) /\ Answered(r2, 200)
        /\ Executed(r1) /\ Executed(r2)

(***************************************************************************)
(* The product-feedback tools.                                             *)
(***************************************************************************)
\* C22: a call of submitProductSuggestion, under any authenticated login, has
\* its INSERT handed to the pooled client and is never answered 403 by the
\* gateway.
C22_SubmitOpenToAllLogins ==
    \A r \in Slots :
        req[r].via = "submitProductSuggestion"
        => Forwarded(r) /\ ~Answered(r, 403)

\* the documented workflow: submitted -> under_review -> accepted or rejected,
\* accepted -> in_progress -> completed
Workflow ==
    {<<NoSuggestion, st_submitted>>, <<st_submitted, st_under_review>>,
     <<st_under_review, st_accepted>>, <<st_under_review, st_rejected>>,
     <<st_accepted, st_in_progress>>, <<st_in_progress, st_completed>>}

\* C23: a suggestion starts in status submitted, and every change of its
\* status is a step of the documented workflow.
C23_StatusFollowsWorkflow ==
    [][suggestion' # suggestion => <<suggestion, suggestion'>> \in Workflow]_vars

(***************************************************************************)
(* The success response of the gateway.                                    *)
(***************************************************************************)
\* C24: a successful POST /api/execute reports operation "write" exactly for
\* a Write-classified statement and "read" otherwise, reports the caller's
\* identity as executedBy, and was answered after the engine was called with
\* the statement.
C24_ExecuteResponse ==
    \A r \in Slots :
        req[r].endpoint = "/api/execute" /\ Answered(r, 200)
        => /\ req[r].operation =
                  IF ClassifiedWrite(req[r].sql) THEN "write" ELSE "read"
           /\ req[r].executedBy = req[r].username
           /\ req[r].engineCalls = 1
           /\ req[r].engineSql = req[r].sql

\* C25: no statement reaches the engine for a request without an identity,
\* on POST /api/query as on POST /api/execute, and every executed statement
\* is attributed to the identity the caller sent.
C25_IdentityOnEveryExecution ==
    \A r \in Slots :
        /\ Forwarded(r) => req[r].username # NoUser
        /\ Answered(r, 200) => req[r].executedBy = req[r].username

(***************************************************************************)
(* The clients of the pool.                                                *)
(***************************************************************************)
\* the handlers that hold a client of the pool
Holders == Cardinality({r \in Slots : req[r].pc = "query"}) + tables

\* C26: every client a handler acquired is released exactly once, when its
\* query resolved as when it rejected: the clients checked out are those of
\* the handlers still at their queries, an answered request has released
\* each client it acquired and an unanswered one none, and with no handler
\* running no client is checked out.
C26_ReleasedExactlyOnce ==
    /\ pool = Holders
    /\ \A r \in Slots :
           req[r].releases = IF req[r].pc = "done" THEN req[r].engineCalls ELSE 0
    /\ (tables = 0 /\ \A r \in Slots : ~InFlight(r)) => pool = 0

\* one request was answered after its query rejected and another after its
\* query resolved, no GET /api/tables is running, and the pool is whole again
C26_Witness ==
    /\ pool = 0
    /\ tables = 0
    /\ \E r1, r2 \in Slots :
          /\ Answered(r1, 500) /\ Executed(r1) /\ req[r1].releases = 1
          /\ Answered(r2, 200) /\ req[r2].releases = 1

(***************************************************************************)
(* The database client singleton.                                          *)
(***************************************************************************)
\* the clients that exist: created, and end() not called on them
LiveInstances == {i \in 1..db.created : db.endCalls[i] = 0}

\* C27: at most one client exists at any time; two getDb calls with no
\* closeDb between them return the same client; when closeDb completes the
\* stored client is null, also when end() threw; and the getDb after a
\* completed closeDb creates a new client.
C27_Singleton ==
    /\ [](Cardinality(LiveInstances) <= 1)
    /\ [][/\ (db.op = "getDb" /\ db'.op = "getDb" => db'.got = db.got)
          /\ (db'.op = "closeDb" /\ db' # db => db'.dbInstance = 0)
          /\ (db.op = "closeDb" /\ db'.op = "getDb" => db'.got = db.created + 1)]_vars

\* C28: getDb never returns a client on which end() was already called, and
\* end() is called at most once on each client.
C28_NoUseAfterEnd ==
    /\ ~db.gotEnded
    /\ \A i \in 1..db.created : db.endCalls[i] <= 1

(***************************************************************************)
(* The results of the MCP tools.                                           *)
(***************************************************************************)
AllTools == McpTools \cup {"listTables"}

Returned(r) == req[r].pc = "returned"

\* C29: callHttpApi never throws and resolves to success = false for every
\* answer that is not a parsed 2xx body; every tool returns exactly one
\* result for a call, none before the gateway's answer, and the result is an
\* error response whenever the API result has success = false.
C29_ToolsReturnOneResult ==
    \A r \in Slots :
        /\ ~req[r].apiThrew
        /\ req[r].toolResults = IF Returned(r) THEN 1 ELSE 0
        /\ Returned(r) =>
              /\ req[r].via \in AllTools
              /\ req[r].status \notin 200..299 \/ req[r].transport # "ok"
                     => req[r].apiSuccess = "false"
              /\ req[r].apiSuccess = "false" => req[r].toolIsError

\* a tool returned an error response for an answer of the gateway that was
\* not 2xx, and another for a 200 answer whose body did not parse
C29_Witness ==
    \E r1, r2 \in Slots :
        /\ Returned(r1) /\ req[r1].status = 403 /\ req[r1].transport = "ok"
        /\ req[r1].apiSuccess = "false" /\ req[r1].toolIsError
        /\ Returned(r2) /\ req[r2].status = 200 /\ req[r2].transport = "unparsable"
        /\ req[r2].apiSuccess = "false" /\ req[r2].toolIsError

(***************************************************************************)
(* The routing of the legacy wrapper.                                      *)
(***************************************************************************)
\* C30: withDatabase posts a statement to /api/execute exactly when its own
\* classifier marks it Write and to /api/query otherwise; that classifier
\* agrees with the gateway's on the statement; so every statement the gateway
\* classifies Write goes to /api/execute, and no statement routed to
\* /api/query is answered 403 there.
C30_WrapperRouting ==
    \A r \in Slots :
        req[r].via = "withDatabase"
        => /\ req[r].endpoint =
                  IF utils_isWriteOperation(req[r].sql) THEN "/api/execute"
                  ELSE "/api/query"
           /\ utils_isWriteOperation(req[r].sql) <=> isWriteOperation(req[r].sql)
           /\ isWriteOperation(req[r].sql) => req[r].endpoint = "/api/execute"
           /\ req[r].endpoint = "/api/query" => ~Answered(r, 403)

\* the wrapper sent a DELETE to /api/execute and a SELECT to /api/query, and
\* both were executed
C30_Witness ==
    \E r1, r2 \in Slots :
        /\ req[r1].via = "withDatabase" /\ req[r1].sql = sqlDelete
        /\ req[r1].endpoint = "/api/execute" /\ Answered(r1, 200)
        /\ req[r2].via = "withDatabase" /\ req[r2].sql = sqlSelect
        /\ req[r2].endpoint = "/api/query" /\ Answered(r2, 200)

====
